---- MODULE Spec2Model ----
(***************************************************************************)
(* Model of the appointment dashboard (src/src/components/Dashboard.tsx):   *)
(* the calendar grid, the time grid, the appointment form with its service  *)
(* bundle, the booked-slot filter and the day/month aggregate; and of the    *)
(* persistence calls (src/src/apiSupabase.ts) over the tables they write.   *)
(*                                                                          *)
(* JavaScript strings are modelled as sequences of one-character strings,   *)
(* so that template literals, padStart, substring, startsWith, split and    *)
(* trim are computed character by character.                                *)
(***************************************************************************)
EXTENDS Integers, Sequences, FiniteSets, TLC

VARIABLES
    services,              \* prop: the service catalog, in list order
    appointments,          \* prop: the appointment list, in list order
    todayStr,              \* getTodayStr() of the render
    selectedDate,          \* useState(todayStr)
    viewMonth,             \* useState(selectedDate.substring(0, 7))
    clientName,            \* form field
    date,                  \* form field
    time,                  \* form field
    serviceId,             \* form field: the primary service
    selectedServiceIds,    \* form field: the bundle
    editingAppointmentId,  \* id of the appointment being edited, or NULL
    lastCall,              \* the callback invoked by the last handler run
    nextId,                \* how many ids the store has handed out
    db,                    \* apiSupabase: the tables behind the supabase client
    outcome                \* apiSupabase: how the last persistence call ended

dashboardVars == << services, appointments, todayStr, selectedDate, viewMonth,
                    clientName, date, time, serviceId, selectedServiceIds,
                    editingAppointmentId, lastCall, nextId >>

storeVars == << db, outcome >>

vars == << dashboardVars, storeVars >>

(***************************************************************************)
(* Strings                                                                  *)
(***************************************************************************)
Digits == << "0", "1", "2", "3", "4", "5", "6", "7", "8", "9" >>

\* Number.prototype.toString() of a non-negative integer
RECURSIVE toString(_)
toString(n) ==
    IF n < 10 THEN << Digits[n + 1] >>
    ELSE toString(n \div 10) \o << Digits[(n % 10) + 1] >>

\* String.prototype.padStart(targetLength, "0")
RECURSIVE padStart(_, _)
padStart(s, targetLength) ==
    IF Len(s) >= targetLength THEN s
    ELSE padStart(<< "0" >> \o s, targetLength)

pad(n) == padStart(toString(n), 2)

DigitValue(c) == CHOOSE v \in 0..9 : Digits[v + 1] = c

\* Number(s) of a string of decimal digits (leading zeros allowed)
RECURSIVE Number(_)
Number(s) ==
    IF Len(s) = 0 THEN 0
    ELSE 10 * Number(SubSeq(s, 1, Len(s) - 1)) + DigitValue(s[Len(s)])

\* s.substring(0, end)
substring(s, end) == SubSeq(s, 1, IF end < Len(s) THEN end ELSE Len(s))

\* mutant of startsWith: the whole string is compared
startsWithExact(s, prefix) == s = prefix

\* s.startsWith(prefix)
startsWith(s, prefix) ==
    /\ Len(prefix) <= Len(s)
    /\ SubSeq(s, 1, Len(prefix)) = prefix

\* s.split("-")
RECURSIVE split(_)
split(s) ==
    IF \A i \in 1..Len(s) : s[i] # "-" THEN << s >>
    ELSE LET i == CHOOSE k \in 1..Len(s) :
                      /\ s[k] = "-"
                      /\ \A j \in 1..(k - 1) : s[j] # "-"
         IN  << SubSeq(s, 1, i - 1) >> \o split(SubSeq(s, i + 1, Len(s)))

\* s.trim(), for strings whose only white space is the blank
RECURSIVE trim(_)
trim(s) ==
    IF Len(s) = 0 THEN s
    ELSE IF s[1] = " " THEN trim(Tail(s))
    ELSE IF s[Len(s)] = " " THEN trim(SubSeq(s, 1, Len(s) - 1))
    ELSE s

(***************************************************************************)
(* The platform's Date object: new Date(year, monthIndex, day) in local     *)
(* time, normalising out-of-range months and days, and its getters.        *)
(***************************************************************************)
\* Days from 1970-01-01 to the civil date y-m-d (m in 1..12)
daysFromCivil(y, m, d) ==
    LET yy  == IF m <= 2 THEN y - 1 ELSE y
        era == yy \div 400
        yoe == yy - era * 400
        mp  == IF m > 2 THEN m - 3 ELSE m + 9
        doy == (153 * mp + 2) \div 5 + d - 1
        doe == yoe * 365 + yoe \div 4 - yoe \div 100 + doy
    IN  era * 146097 + doe - 719468

\* The civil date of a day number
civilFromDays(z) ==
    LET zz  == z + 719468
        era == zz \div 146097
        doe == zz - era * 146097
        yoe == (doe - doe \div 1460 + doe \div 36524 - doe \div 146096) \div 365
        doy == doe - (365 * yoe + yoe \div 4 - yoe \div 100)
        mp  == (5 * doy + 2) \div 153
        d   == doy - (153 * mp + 2) \div 5 + 1
        m   == IF mp < 10 THEN mp + 3 ELSE mp - 9
        y   == yoe + era * 400
    IN  [ year |-> IF m <= 2 THEN y + 1 ELSE y, month |-> m, day |-> d ]

\* new Date(year, monthIndex, day): a year of 0..99 means 1900 + year; the
\* month index and the day may lie outside their ranges and carry over.
NewDate(year, monthIndex, day) ==
    LET fullYear == IF year \in 0..99 THEN 1900 + year ELSE year
        y == fullYear + (monthIndex \div 12)
        m == (monthIndex % 12) + 1
    IN  daysFromCivil(y, m, 1) + (day - 1)

getFullYear(dt) == civilFromDays(dt).year
getMonth(dt) == civilFromDays(dt).month - 1
getDate(dt) == civilFromDays(dt).day
\* 0 (Sunday) .. 6 (Saturday); 1970-01-01 was a Thursday
getDay(dt) == (dt + 4) % 7

(***************************************************************************)
(* generateCalendarDays                                                     *)
(***************************************************************************)
\* mutant of CalendarDay: only the cells of the month on view can be flagged
\* as selected
CalendarDayCurrentOnly(dateStr, dayNumber, isCurrentMonth, selected, today) ==
    [ dateStr        |-> dateStr,
      dayNumber      |-> dayNumber,
      isCurrentMonth |-> isCurrentMonth,
      isToday        |-> dateStr = today,
      isSelected     |-> isCurrentMonth /\ dateStr = selected ]

CalendarDay(dateStr, dayNumber, isCurrentMonth, selected, today) ==
    [ dateStr        |-> dateStr,
      dayNumber      |-> dayNumber,
      isCurrentMonth |-> isCurrentMonth,
      isToday        |-> dateStr = today,
      isSelected     |-> dateStr = selected ]

\* `${y}-${pad(m)}-`: the part of the template literal that every cell of
\* one loop shares
DatePrefix(y, m) == toString(y) \o << "-" >> \o pad(m) \o << "-" >>

\* `${y}-${pad(m)}-${pad(d)}`
DateString(y, m, d) == DatePrefix(y, m) \o pad(d)

\* line 51
firstWeekday(year, month) == getDay(NewDate(year, month - 1, 1))

\* line 54
prevMonthLastDay(year, month) == getDate(NewDate(year, month - 1, 0))

\* line 55
prevMonth(month) == IF month = 1 THEN 12 ELSE month - 1

\* mutant of prevYear: January does not wrap to the year before
prevYearNoWrap(year, month) == year

\* line 56
prevYear(year, month) == IF month = 1 THEN year - 1 ELSE year

\* mutant of daysInMonth: day 0 of the target month, the last day of the
\* month before it
daysInMonthOfPrev(year, month) == getDate(NewDate(year, month - 1, 0))

\* mutant of daysInMonth: a table that knows no leap year
daysInMonthNoLeap(year, month) ==
    IF month = 2 THEN 28 ELSE IF month \in { 4, 6, 9, 11 } THEN 30 ELSE 31

\* line 71
daysInMonth(year, month) == getDate(NewDate(year, month, 0))

\* line 84
nextMonthNum(month) == IF month = 12 THEN 1 ELSE month + 1

\* line 85
nextYear(year, month) == IF month = 12 THEN year + 1 ELSE year

\* line 87: while (days.length < 42)
GridSize == 42

generateCalendarDays(year, month, selected, today) ==
    LET fw         == firstWeekday(year, month)
        lastPrev   == prevMonthLastDay(year, month)
        prevPrefix == DatePrefix(prevYear(year, month), prevMonth(month))
        \* for (i = firstWeekday - 1; i >= 0; i--): the k-th cell pushed has
        \* i = firstWeekday - k
        leading == [ k \in 1..fw |->
                       LET dayNumber == lastPrev - (fw - k)
                       IN  CalendarDay(prevPrefix \o pad(dayNumber),
                                       dayNumber, FALSE, selected, today) ]
        thisPrefix == DatePrefix(year, month)
        current == [ d \in 1..daysInMonth(year, month) |->
                       CalendarDay(thisPrefix \o pad(d), d, TRUE, selected, today) ]
        nextPrefix == DatePrefix(nextYear(year, month), nextMonthNum(month))
        filled     == Len(leading) + Len(current)
        trailing == [ nextDay \in 1..(IF filled < GridSize THEN GridSize - filled ELSE 0) |->
                       CalendarDay(nextPrefix \o pad(nextDay),
                                   nextDay, FALSE, selected, today) ]
    IN  leading \o current \o trailing

(***************************************************************************)
(* generateTimeOptions                                                      *)
(***************************************************************************)
startHour == 7
endHour == 19
intervalMinutes == 30

\* the inner loop: for (minute = 0; minute < 60; minute += intervalMinutes)
RECURSIVE MinuteLoop(_, _)
MinuteLoop(hour, minute) ==
    IF minute < 60
    THEN << pad(hour) \o << ":" >> \o pad(minute) >> \o MinuteLoop(hour, minute + intervalMinutes)
    ELSE << >>

\* mutant of HourLoop: hour < endHour
RECURSIVE HourLoopExclusive(_)
HourLoopExclusive(hour) ==
    IF hour < endHour THEN MinuteLoop(hour, 0) \o HourLoopExclusive(hour + 1) ELSE << >>

\* the outer loop: for (hour = startHour; hour <= endHour; hour++)
RECURSIVE HourLoop(_)
HourLoop(hour) ==
    IF hour <= endHour THEN MinuteLoop(hour, 0) \o HourLoop(hour + 1) ELSE << >>

generateTimeOptions == HourLoop(startHour)

\* line 138: useMemo(() => generateTimeOptions(), [])
timeOptions == generateTimeOptions

(***************************************************************************)
(* The Dashboard component: values derived on every render                  *)
(***************************************************************************)
\* null, and the empty string: both falsy
NULL == << >>

\* array.find(pred): the first element that satisfies pred, as a sequence of
\* at most one element (empty when find returns undefined)
FindService(list, id) ==
    LET hits == SelectSeq(list, LAMBDA s : s.id = id)
    IN  IF Len(hits) = 0 THEN << >> ELSE << hits[1] >>

FindAppointment(list, id) ==
    LET hits == SelectSeq(list, LAMBDA a : a.id = id)
    IN  IF Len(hits) = 0 THEN << >> ELSE << hits[1] >>

\* services.find((s) => s.id === id)?.price ?? 0
ServicePriceOrZero(id) ==
    LET s == FindService(services, id)
    IN  IF Len(s) = 0 THEN 0 ELSE s[1].price

\* mutant of AggregatePrice: the stored total is used even when it is 0
AggregatePriceNoFallback(a) == a.totalPrice

\* mutant of AggregatePrice: the catalog price wins while the service is in
\* the catalog
AggregatePriceCatalogFirst(a) ==
    LET s == FindService(services, a.serviceId)
    IN  IF Len(s) > 0 THEN s[1].price ELSE a.totalPrice

\* lines 147-151: the price of one appointment inside the aggregate
AggregatePrice(a) ==
    IF a.totalPrice > 0 THEN a.totalPrice ELSE ServicePriceOrZero(a.serviceId)

\* lines 684-689: the value shown in the day list
DayListValue(a) ==
    LET service == FindService(services, a.serviceId)
    IN  IF a.totalPrice > 0 THEN a.totalPrice
        ELSE IF Len(service) = 0 THEN 0 ELSE service[1].price

\* lines 344-351: the price put in the message text
MessagePrice(a) ==
    LET service   == FindService(services, a.serviceId)
        basePrice == IF Len(service) = 0 THEN 0 ELSE service[1].price
    IN  IF a.totalPrice > 0 THEN a.totalPrice ELSE basePrice

\* mutant of AggregateLoop: the month check is the else branch of the day check
RECURSIVE AggregateLoopElse(_, _, _)
AggregateLoopElse(list, sel, acc) ==
    IF Len(list) = 0 THEN acc
    ELSE LET a     == Head(list)
             month == substring(sel, 7)
             price == AggregatePrice(a)
             onDay == a.date = sel
             inMonth == ~ onDay /\ startsWith(a.date, month)
         IN  AggregateLoopElse(Tail(list), sel,
                 [ totalDay   |-> IF onDay THEN acc.totalDay + price ELSE acc.totalDay,
                   countDay   |-> IF onDay THEN acc.countDay + 1 ELSE acc.countDay,
                   totalMonth |-> IF inMonth THEN acc.totalMonth + price ELSE acc.totalMonth ])

\* lines 140-162: appointments.forEach over the list, in order
RECURSIVE AggregateLoop(_, _, _)
AggregateLoop(list, sel, acc) ==
    IF Len(list) = 0 THEN acc
    ELSE LET a     == Head(list)
             month == substring(sel, 7)
             price == AggregatePrice(a)
             onDay == a.date = sel
             inMonth == startsWith(a.date, month)
         IN  AggregateLoop(Tail(list), sel,
                 [ totalDay   |-> IF onDay THEN acc.totalDay + price ELSE acc.totalDay,
                   countDay   |-> IF onDay THEN acc.countDay + 1 ELSE acc.countDay,
                   totalMonth |-> IF inMonth THEN acc.totalMonth + price ELSE acc.totalMonth ])

aggregate ==
    AggregateLoop(appointments, selectedDate,
                  [ totalDay |-> 0, totalMonth |-> 0, countDay |-> 0 ])

\* lines 164-170 (the order of the day list plays no part in the handlers)
appointmentsOfDay == SelectSeq(appointments, LAMBDA a : a.date = selectedDate)

\* mutant of bookedTimesForFormDate: the appointment being edited is kept
bookedTimesIgnoringEdit ==
    LET kept == SelectSeq(appointments, LAMBDA a : a.date = date)
    IN  [ i \in 1..Len(kept) |-> kept[i].time ]

\* lines 274-282
bookedTimesForFormDate ==
    LET kept == SelectSeq(appointments,
                          LAMBDA a : a.date = date /\ a.id # editingAppointmentId)
    IN  [ i \in 1..Len(kept) |-> kept[i].time ]

includes(list, x) == \E i \in 1..Len(list) : list[i] = x

viewYearNumber == Number(split(viewMonth)[1])
viewMonthNumber == Number(split(viewMonth)[2])

calendarDays ==
    generateCalendarDays(viewYearNumber, viewMonthNumber, selectedDate, todayStr)

(***************************************************************************)
(* The callbacks the parent passes in                                       *)
(***************************************************************************)
NoData ==
    [ clientName |-> << >>, date |-> << >>, time |-> << >>, serviceId |-> << >>,
      totalPrice |-> 0, attended |-> FALSE ]

NoCall == [ kind |-> "none", id |-> NULL, data |-> NoData, serviceIds |-> << >> ]

\* the id the store gives the n-th appointment it creates
NewId(n) == << "a" >> \o toString(n)

WithId(id, data) ==
    [ id |-> id, clientName |-> data.clientName, date |-> data.date,
      time |-> data.time, serviceId |-> data.serviceId,
      totalPrice |-> data.totalPrice, attended |-> data.attended ]

\* onAddAppointment: the created appointment joins the list
onAddAppointment(data, serviceIds) ==
    /\ appointments' = Append(appointments, WithId(NewId(nextId + 1), data))
    /\ nextId' = nextId + 1
    /\ UNCHANGED storeVars
    /\ lastCall' = [ kind |-> "add", id |-> NULL, data |-> data, serviceIds |-> serviceIds ]

\* onUpdateAppointment: the appointment of that id is replaced
onUpdateAppointment(id, data, serviceIds) ==
    /\ appointments' = [ i \in 1..Len(appointments) |->
                           IF appointments[i].id = id THEN WithId(id, data)
                           ELSE appointments[i] ]
    /\ nextId' = nextId
    /\ UNCHANGED storeVars
    /\ lastCall' = [ kind |-> "update", id |-> id, data |-> data, serviceIds |-> serviceIds ]

\* onDeleteAppointment: the appointment of that id leaves the list
onDeleteAppointment(id) ==
    /\ appointments' = SelectSeq(appointments, LAMBDA a : a.id # id)
    /\ nextId' = nextId
    /\ UNCHANGED storeVars
    /\ lastCall' = [ kind |-> "delete", id |-> id, data |-> NoData, serviceIds |-> << >> ]

NoCallback ==
    /\ lastCall' = NoCall
    /\ UNCHANGED << appointments, nextId >>
    /\ UNCHANGED storeVars

\* line 216: the submit handler returned before it called anything
Rejected == [ kind |-> "rejected", id |-> NULL, data |-> NoData, serviceIds |-> << >> ]

EarlyReturn ==
    /\ lastCall' = Rejected
    /\ UNCHANGED << appointments, nextId >>
    /\ UNCHANGED storeVars

(***************************************************************************)
(* The handlers                                                             *)
(***************************************************************************)
\* lines 193-197: the effect that runs after a render in which
\* editingAppointmentId or selectedDate changed; d is the form date the
\* handler itself left.
DateAfterEffect(d) ==
    IF /\ editingAppointmentId' = NULL
       /\ \/ editingAppointmentId' # editingAppointmentId
          \/ selectedDate' # selectedDate
    THEN selectedDate'
    ELSE d

\* onChange of the client name input
setClientName(v) ==
    /\ clientName' = v
    /\ NoCallback
    /\ UNCHANGED << services, todayStr, selectedDate, viewMonth, date, time,
                    serviceId, selectedServiceIds, editingAppointmentId >>

\* onChange of the date input
setDate(v) ==
    /\ date' = v
    /\ NoCallback
    /\ UNCHANGED << services, todayStr, selectedDate, viewMonth, clientName, time,
                    serviceId, selectedServiceIds, editingAppointmentId >>

\* lines 806-813: the options of the time select, after its placeholder
selectOptions ==
    LET booked == bookedTimesForFormDate
    IN  [ i \in 1..Len(timeOptions) |->
            [ value |-> timeOptions[i], disabled |-> includes(booked, timeOptions[i]) ] ]

\* onChange of the time select: the placeholder option, or an option that is
\* not disabled
setTime(t) ==
    /\ \/ t = << >>
       \/ \E i \in 1..Len(selectOptions) :
             /\ selectOptions[i].value = t
             /\ ~ selectOptions[i].disabled
    /\ time' = t
    /\ NoCallback
    /\ UNCHANGED << services, todayStr, selectedDate, viewMonth, clientName, date,
                    serviceId, selectedServiceIds, editingAppointmentId >>

\* line 294
MaxBundle == 5

\* mutant of toggleServiceSelection: no limit on the bundle
toggleServiceSelectionNoCap(id) ==
    /\ Len(FindService(services, id)) > 0
    /\ LET prev   == selectedServiceIds
           exists == includes(prev, id)
       IN  IF exists
           THEN LET updated == SelectSeq(prev, LAMBDA sId : sId # id)
                IN  /\ serviceId' = IF Len(updated) > 0 THEN updated[1] ELSE << >>
                    /\ selectedServiceIds' = updated
           ELSE LET updated == Append(prev, id)
                IN  /\ serviceId' = IF serviceId = << >> THEN updated[1] ELSE serviceId
                    /\ selectedServiceIds' = updated
    /\ NoCallback
    /\ UNCHANGED << services, todayStr, selectedDate, viewMonth, clientName, date,
                    time, editingAppointmentId >>

\* mutant of toggleServiceSelection: a removal leaves the primary service as
\* it was
toggleServiceSelectionNoPromote(id) ==
    /\ Len(FindService(services, id)) > 0
    /\ LET prev   == selectedServiceIds
           exists == includes(prev, id)
       IN  IF exists
           THEN LET updated == SelectSeq(prev, LAMBDA sId : sId # id)
                IN  /\ serviceId' = serviceId
                    /\ selectedServiceIds' = updated
           ELSE IF Len(prev) >= MaxBundle
           THEN UNCHANGED << serviceId, selectedServiceIds >>
           ELSE LET updated == Append(prev, id)
                IN  /\ serviceId' = IF serviceId = << >> THEN updated[1] ELSE serviceId
                    /\ selectedServiceIds' = updated
    /\ NoCallback
    /\ UNCHANGED << services, todayStr, selectedDate, viewMonth, clientName, date,
                    time, editingAppointmentId >>

\* lines 284-307; the check box exists for the services of the catalog
toggleServiceSelection(id) ==
    /\ Len(FindService(services, id)) > 0
    /\ LET prev   == selectedServiceIds
           exists == includes(prev, id)
       IN  IF exists
           THEN LET updated == SelectSeq(prev, LAMBDA sId : sId # id)
                IN  /\ serviceId' = IF Len(updated) > 0 THEN updated[1] ELSE << >>
                    /\ selectedServiceIds' = updated
           ELSE IF Len(prev) >= MaxBundle
           THEN UNCHANGED << serviceId, selectedServiceIds >>
           ELSE LET updated == Append(prev, id)
                IN  /\ serviceId' = IF serviceId = << >> THEN updated[1] ELSE serviceId
                    /\ selectedServiceIds' = updated
    /\ NoCallback
    /\ UNCHANGED << services, todayStr, selectedDate, viewMonth, clientName, date,
                    time, editingAppointmentId >>

\* mutant of handleEditAppointment: the bundle is left as it was
handleEditAppointmentKeepBundle(a) ==
    /\ includes(appointmentsOfDay, a)
    /\ editingAppointmentId' = a.id
    /\ clientName' = a.clientName
    /\ date' = a.date
    /\ time' = a.time
    /\ serviceId' = a.serviceId
    /\ selectedServiceIds' = selectedServiceIds
    /\ NoCallback
    /\ UNCHANGED << services, todayStr, selectedDate, viewMonth >>

\* lines 252-265; the button sits in the day list
handleEditAppointment(a) ==
    /\ includes(appointmentsOfDay, a)
    /\ editingAppointmentId' = a.id
    /\ clientName' = a.clientName
    /\ date' = a.date
    /\ time' = a.time
    /\ serviceId' = a.serviceId
    /\ selectedServiceIds' = IF a.serviceId # << >> THEN << a.serviceId >> ELSE << >>
    /\ NoCallback
    /\ UNCHANGED << services, todayStr, selectedDate, viewMonth >>

\* lines 199-209, as the "Cancelar edição" button runs it (shown while editing)
resetAppointmentForm ==
    /\ editingAppointmentId # NULL
    /\ clientName' = << >>
    /\ time' = << >>
    /\ serviceId' = << >>
    /\ selectedServiceIds' = << >>
    /\ editingAppointmentId' = NULL
    /\ NoCallback
    /\ UNCHANGED << services, todayStr, selectedDate, viewMonth >>
    /\ date' = DateAfterEffect(selectedDate)

\* mutant of handleSubmitAppointment: the client name is not trimmed before
\* it is checked
handleSubmitAppointmentUntrimmed ==
    LET chosenServiceId ==
            IF Len(selectedServiceIds) > 0 /\ selectedServiceIds[1] # << >>
            THEN selectedServiceIds[1] ELSE serviceId
        found == SelectSeq(selectedServiceIds,
                           LAMBDA id : Len(FindService(services, id)) > 0)
        selectedServices == [ i \in 1..Len(found) |-> FindService(services, found[i])[1] ]
        SumPrices[ n \in 0..Len(selectedServices) ] ==
            IF n = 0 THEN 0 ELSE SumPrices[n - 1] + selectedServices[n].price
        totalPrice ==
            IF Len(selectedServices) > 0 THEN SumPrices[Len(selectedServices)]
            ELSE ServicePriceOrZero(chosenServiceId)
        editing == FindAppointment(appointments, editingAppointmentId)
        data == [ clientName |-> trim(clientName),
                  date       |-> date,
                  time       |-> time,
                  serviceId  |-> chosenServiceId,
                  totalPrice |-> totalPrice,
                  attended   |-> IF editingAppointmentId # NULL /\ Len(editing) > 0
                                 THEN editing[1].attended ELSE FALSE ]
    IN  IF \/ clientName = << >>
           \/ chosenServiceId = << >>
           \/ time = << >>
           \/ date = << >>
        THEN /\ EarlyReturn
             /\ UNCHANGED << services, todayStr, selectedDate, viewMonth, clientName,
                             date, time, serviceId, selectedServiceIds,
                             editingAppointmentId >>
        ELSE /\ IF editingAppointmentId # NULL
                THEN onUpdateAppointment(editingAppointmentId, data, selectedServiceIds)
                ELSE onAddAppointment(data, selectedServiceIds)
             \* resetAppointmentForm()
             /\ clientName' = << >>
             /\ time' = << >>
             /\ serviceId' = << >>
             /\ selectedServiceIds' = << >>
             /\ editingAppointmentId' = NULL
             /\ selectedDate' = date
             /\ viewMonth' = substring(date, 7)
             /\ date' = DateAfterEffect(selectedDate)
             /\ UNCHANGED << services, todayStr >>

\* lines 211-250
handleSubmitAppointment ==
    LET chosenServiceId ==
            IF Len(selectedServiceIds) > 0 /\ selectedServiceIds[1] # << >>
            THEN selectedServiceIds[1] ELSE serviceId
        found == SelectSeq(selectedServiceIds,
                           LAMBDA id : Len(FindService(services, id)) > 0)
        selectedServices == [ i \in 1..Len(found) |-> FindService(services, found[i])[1] ]
        SumPrices[ n \in 0..Len(selectedServices) ] ==
            IF n = 0 THEN 0 ELSE SumPrices[n - 1] + selectedServices[n].price
        totalPrice ==
            IF Len(selectedServices) > 0 THEN SumPrices[Len(selectedServices)]
            ELSE ServicePriceOrZero(chosenServiceId)
        editing == FindAppointment(appointments, editingAppointmentId)
        data == [ clientName |-> trim(clientName),
                  date       |-> date,
                  time       |-> time,
                  serviceId  |-> chosenServiceId,
                  totalPrice |-> totalPrice,
                  attended   |-> IF editingAppointmentId # NULL /\ Len(editing) > 0
                                 THEN editing[1].attended ELSE FALSE ]
    IN  IF \/ trim(clientName) = << >>
           \/ chosenServiceId = << >>
           \/ time = << >>
           \/ date = << >>
        THEN /\ EarlyReturn
             /\ UNCHANGED << services, todayStr, selectedDate, viewMonth, clientName,
                             date, time, serviceId, selectedServiceIds,
                             editingAppointmentId >>
        ELSE /\ IF editingAppointmentId # NULL
                THEN onUpdateAppointment(editingAppointmentId, data, selectedServiceIds)
                ELSE onAddAppointment(data, selectedServiceIds)
             \* resetAppointmentForm()
             /\ clientName' = << >>
             /\ time' = << >>
             /\ serviceId' = << >>
             /\ selectedServiceIds' = << >>
             /\ editingAppointmentId' = NULL
             /\ selectedDate' = date
             /\ viewMonth' = substring(date, 7)
             /\ date' = DateAfterEffect(selectedDate)
             /\ UNCHANGED << services, todayStr >>

\* lines 267-271, the confirm dialog accepted
handleDeleteAppointmentClick(id) ==
    /\ \E i \in 1..Len(appointmentsOfDay) : appointmentsOfDay[i].id = id
    /\ onDeleteAppointment(id)
    /\ UNCHANGED << services, todayStr, selectedDate, viewMonth, clientName, date,
                    time, serviceId, selectedServiceIds, editingAppointmentId >>

\* lines 517-520; day is the cell of calendarDays whose button was clicked
handleSelectDay(day) ==
    /\ selectedDate' = day.dateStr
    /\ NoCallback
    /\ UNCHANGED << services, todayStr, viewMonth, clientName, time, serviceId,
                    selectedServiceIds, editingAppointmentId >>
    /\ date' = DateAfterEffect(day.dateStr)

\* lines 511-515
goMonth(delta) ==
    LET d == NewDate(viewYearNumber, viewMonthNumber - 1 + delta, 1)
        newMonthStr == toString(getFullYear(d)) \o << "-" >> \o pad(getMonth(d) + 1)
    IN  /\ viewMonth' = newMonthStr
        /\ NoCallback
        /\ UNCHANGED << services, todayStr, selectedDate, clientName, date, time,
                        serviceId, selectedServiceIds, editingAppointmentId >>

(***************************************************************************)
(* The service modal. Its fields (lines 416-421) are inputs of the two      *)
(* handlers that reach the catalog.                                         *)
(***************************************************************************)
\* the id the store gives a new service: one no service of the catalog has
ServiceIdOf(n) == << "s" >> \o toString(n)

NewServiceId ==
    ServiceIdOf(CHOOSE n \in 2..(Len(services) + 2) :
                    \A i \in 1..Len(services) : services[i].id # ServiceIdOf(n))

\* onAddService: the created service joins the catalog
onAddService(data) ==
    services' = Append(services, [ id |-> NewServiceId, price |-> data.price ])

\* onUpdateService: the service of that id is replaced
onUpdateService(id, data) ==
    services' = [ i \in 1..Len(services) |->
                    IF services[i].id = id THEN [ id |-> id, price |-> data.price ]
                    ELSE services[i] ]

\* onDeleteService: the service of that id leaves the catalog
onDeleteService(id) ==
    services' = SelectSeq(services, LAMBDA s : s.id # id)

\* a handler of the modal calls no appointment callback and leaves the
\* appointment form and the calendar alone
ModalFrame ==
    /\ NoCallback
    /\ UNCHANGED << todayStr, selectedDate, viewMonth, clientName, date, time,
                    serviceId, selectedServiceIds, editingAppointmentId >>

\* lines 442-465; price and duration are typed as digits
handleNewService(serviceName, servicePrice, serviceDuration, isEditingService, selectedServiceId) ==
    LET selectedService == FindService(services, selectedServiceId)
        data == [ price |-> Number(servicePrice) ]
    IN  /\ IF \/ trim(serviceName) = << >>
              \/ servicePrice = << >>
              \/ serviceDuration = << >>
           THEN UNCHANGED services
           ELSE IF isEditingService /\ Len(selectedService) > 0
           THEN onUpdateService(selectedService[1].id, data)
           ELSE onAddService(data)
        /\ ModalFrame

\* lines 485-500, the confirm dialog accepted
handleClickDeleteService(selectedServiceId) ==
    LET selectedService == FindService(services, selectedServiceId)
    IN  /\ IF Len(selectedService) = 0
           THEN UNCHANGED services
           ELSE onDeleteService(selectedService[1].id)
        /\ ModalFrame

(***************************************************************************)
(* apiSupabase.ts: the persistence calls                                    *)
(*                                                                          *)
(* Every supabase request of a call either succeeds or comes back with an   *)
(* error (the ok arguments); a request that comes back with an error has    *)
(* changed no row.                                                          *)
(***************************************************************************)
\* lines 4-12
mapServiceFromDb(row) == [ id |-> row.id, price |-> row.price ]

\* lines 14-21
mapServiceToDb(data) == [ price |-> data.price ]

\* lines 79-92
mapAppointmentFromDb(row) ==
    [ id |-> row.id, clientName |-> row.client_name, date |-> row.date,
      time |-> row.time, serviceId |-> row.service_id,
      totalPrice |-> row.total_price, attended |-> row.attended ]

\* lines 94-106
mapAppointmentToDb(data) ==
    [ client_name |-> data.clientName, date |-> data.date, time |-> data.time,
      service_id |-> data.serviceId, total_price |-> data.totalPrice,
      attended |-> data.attended ]

\* the row the table keeps for a payload
AppointmentRow(id, payload) ==
    [ id |-> id, client_name |-> payload.client_name, date |-> payload.date,
      time |-> payload.time, service_id |-> payload.service_id,
      total_price |-> payload.total_price, attended |-> payload.attended ]

ServiceRow(id, payload) == [ id |-> id, price |-> payload.price ]

\* .eq('id', id): some row of the table has that id
Matches(table, id) == \E i \in 1..Len(table) : table[i].id = id

\* the requests that came back with an error, and whether the call threw
Outcome(call, failed, threw) == [ call |-> call, failed |-> failed, threw |-> threw ]

NoOutcome == Outcome("none", { }, FALSE)

\* lines 23-34
fetchServices(ok) ==
    /\ db' = db
    /\ outcome' = IF ok THEN Outcome("fetchServices", { }, FALSE)
                  ELSE Outcome("fetchServices", { "select services" }, TRUE)
    /\ UNCHANGED dashboardVars

\* lines 36-49
insertService(data, ok) ==
    LET payload == mapServiceToDb(data)
        id      == << "s" >> \o toString(db.createdServices + 1)
    IN  /\ IF ok
           THEN /\ db' = [ db EXCEPT !.services = Append(@, ServiceRow(id, payload)),
                                     !.createdServices = @ + 1 ]
                /\ outcome' = Outcome("insertService", { }, FALSE)
           ELSE /\ db' = db
                /\ outcome' = Outcome("insertService", { "insert services" }, TRUE)
        /\ UNCHANGED dashboardVars

\* lines 51-65; .single() is an error when no row has the id
updateService(id, data, ok) ==
    LET payload == mapServiceToDb(data)
    IN  /\ IF ok /\ Matches(db.services, id)
           THEN /\ db' = [ db EXCEPT !.services =
                             [ i \in 1..Len(@) |->
                                 IF @[i].id = id THEN ServiceRow(id, payload) ELSE @[i] ] ]
                /\ outcome' = Outcome("updateService", { }, FALSE)
           ELSE /\ db' = db
                /\ outcome' = Outcome("updateService", { "update services" }, TRUE)
        /\ UNCHANGED dashboardVars

\* lines 67-77
deleteService(id, ok) ==
    /\ IF ok
       THEN /\ db' = [ db EXCEPT !.services = SelectSeq(@, LAMBDA row : row.id # id) ]
            /\ outcome' = Outcome("deleteService", { }, FALSE)
       ELSE /\ db' = db
            /\ outcome' = Outcome("deleteService", { "delete services" }, TRUE)
    /\ UNCHANGED dashboardVars

\* lines 108-120
fetchAppointments(ok) ==
    /\ db' = db
    /\ outcome' = IF ok THEN Outcome("fetchAppointments", { }, FALSE)
                  ELSE Outcome("fetchAppointments", { "select appointments" }, TRUE)
    /\ UNCHANGED dashboardVars

\* lines 140-147 and 181-197: one link per service id
LinksPayload(id, allServiceIds) ==
    [ i \in 1..Len(allServiceIds) |->
        [ appointment_id |-> id, service_id |-> allServiceIds[i] ] ]

\* lines 122-159
insertAppointment(data, serviceIds, okInsert, okLinks) ==
    LET payload       == mapAppointmentToDb(data)
        id            == NewId(db.createdAppointments + 1)
        created       == mapAppointmentFromDb(AppointmentRow(id, payload))
        allServiceIds == IF Len(serviceIds) > 0 THEN serviceIds ELSE << data.serviceId >>
        inserted      == [ db EXCEPT !.appointments = Append(@, AppointmentRow(id, payload)),
                                     !.createdAppointments = @ + 1 ]
    IN  /\ IF ~ okInsert
           THEN /\ db' = db
                /\ outcome' = Outcome("insertAppointment", { "insert appointments" }, TRUE)
           ELSE IF Len(allServiceIds) > 0 /\ ~ okLinks
           THEN /\ db' = inserted
                /\ outcome' = Outcome("insertAppointment",
                                       { "insert appointment_services" }, FALSE)
           ELSE /\ db' = [ inserted EXCEPT !.appointment_services =
                             @ \o LinksPayload(created.id, allServiceIds) ]
                /\ outcome' = Outcome("insertAppointment", { }, FALSE)
        /\ UNCHANGED dashboardVars

\* lines 161-209; .single() is an error when no row has the id
updateAppointment(id, data, serviceIds, okUpdate, okDelete, okLinks) ==
    LET payload       == mapAppointmentToDb(data)
        allServiceIds == IF Len(serviceIds) > 0 THEN serviceIds ELSE << data.serviceId >>
        updated       == [ db EXCEPT !.appointments =
                             [ i \in 1..Len(@) |->
                                 IF @[i].id = id THEN AppointmentRow(id, payload) ELSE @[i] ] ]
        cleared       == IF okDelete
                         THEN [ updated EXCEPT !.appointment_services =
                                  SelectSeq(@, LAMBDA link : link.appointment_id # id) ]
                         ELSE updated
        linked        == IF Len(allServiceIds) > 0 /\ okLinks
                         THEN [ cleared EXCEPT !.appointment_services =
                                  @ \o LinksPayload(id, allServiceIds) ]
                         ELSE cleared
        failed        == (IF okDelete THEN { } ELSE { "delete appointment_services" })
                         \cup (IF Len(allServiceIds) > 0 /\ ~ okLinks
                               THEN { "insert appointment_services" } ELSE { })
    IN  /\ IF ~ (okUpdate /\ Matches(db.appointments, id))
           THEN /\ db' = db
                /\ outcome' = Outcome("updateAppointment", { "update appointments" }, TRUE)
           ELSE /\ db' = linked
                /\ outcome' = Outcome("updateAppointment", failed, FALSE)
        /\ UNCHANGED dashboardVars

\* lines 211-231
deleteAppointment(id, okDelete, okLinks) ==
    LET deleted == [ db EXCEPT !.appointments = SelectSeq(@, LAMBDA row : row.id # id) ]
    IN  /\ IF ~ okDelete
           THEN /\ db' = db
                /\ outcome' = Outcome("deleteAppointment", { "delete appointments" }, TRUE)
           ELSE IF ~ okLinks
           THEN /\ db' = deleted
                /\ outcome' = Outcome("deleteAppointment",
                                       { "delete appointment_services" }, FALSE)
           ELSE /\ db' = [ deleted EXCEPT !.appointment_services =
                             SelectSeq(@, LAMBDA link : link.appointment_id # id) ]
                /\ outcome' = Outcome("deleteAppointment", { }, FALSE)
        /\ UNCHANGED dashboardVars

\* lines 233-243
toggleAttendance(id, attended, ok) ==
    /\ IF ok
       THEN /\ db' = [ db EXCEPT !.appointments =
                         [ i \in 1..Len(@) |->
                             IF @[i].id = id THEN [ @[i] EXCEPT !.attended = attended ]
                             ELSE @[i] ] ]
            /\ outcome' = Outcome("toggleAttendance", { }, FALSE)
       ELSE /\ db' = db
            /\ outcome' = Outcome("toggleAttendance", { "update appointments" }, TRUE)
    /\ UNCHANGED dashboardVars

(***************************************************************************)
(* Bounds and input sets                                                    *)
(***************************************************************************)
MaxIds == 2             \* appointments the store creates (form specification)
NavMonths == 1          \* months the view moves away from today's month
NumBundleServices == 6  \* catalog size of the bundle specification
MaxBundleIds == 1       \* appointments the store creates (bundle specification)
MaxAggAppointments == 3 \* list length of the aggregate specification
MaxCatalogAppointments == 2 \* list length of the catalog specification
MaxCatalog == 2          \* services of the catalog (catalog specification)
MaxStoreAppointments == 1 \* appointment rows the store creates (store specification)
MaxStoreServices == 1   \* service rows the store creates (store specification)
MaxStoreLinks == 3      \* rows of appointment_services (store specification)

S(n) == << "s" >> \o toString(n)

Today == DateString(2025, 6, 1)

\* the first and the last option of the time select
TimeChoices == { timeOptions[1], timeOptions[Len(timeOptions)] }

NameChoices == { << " " >>, << "A" >> }

Abs(n) == IF n < 0 THEN 0 - n ELSE n

MonthIndex(s) == 12 * Number(split(s)[1]) + Number(split(s)[2])

\* the view stays within NavMonths of today's month
InWindow(month) == Abs(MonthIndex(month) - MonthIndex(todayStr)) <= NavMonths

\* the state of a fresh render over the given props and clock
Mounted ==
    /\ selectedDate = todayStr
    /\ viewMonth = substring(selectedDate, 7)

\* no table holds a row and no persistence call was made
EmptyTables ==
    [ services |-> << >>, createdServices |-> 0, appointments |-> << >>,
      createdAppointments |-> 0, appointment_services |-> << >> ]

StoreIdle ==
    /\ db = EmptyTables
    /\ outcome = NoOutcome

EmptyForm ==
    /\ clientName = << >>
    /\ date = selectedDate
    /\ time = << >>
    /\ serviceId = << >>
    /\ selectedServiceIds = << >>
    /\ editingAppointmentId = NULL
    /\ lastCall = NoCall

\* the buttons of the calendar grid (lines 625-656)
CalendarCells == LET cells == calendarDays IN { cells[i] : i \in 1..Len(cells) }

(***************************************************************************)
(* Spec: the appointment form over two dates, two times and one service     *)
(***************************************************************************)
FormDates == { DateString(2025, 6, 1), DateString(2025, 6, 15) }

FormCatalog == << [ id |-> S(1), price |-> 80 ] >>

\* an appointment stored before totals were snapshotted
Legacy ==
    [ id |-> NewId(1), clientName |-> << "A" >>, date |-> Today,
      time |-> timeOptions[1], serviceId |-> S(1), totalPrice |-> 0,
      attended |-> TRUE ]

Init ==
    /\ services = FormCatalog
    /\ appointments = << Legacy >>
    /\ nextId = Len(appointments)
    /\ todayStr = Today
    /\ Mounted
    /\ EmptyForm
    /\ StoreIdle

\* a submission that creates an appointment needs a free id
CanStore == editingAppointmentId # NULL \/ nextId < MaxIds

Next ==
    \/ \E v \in NameChoices : setClientName(v)
    \/ \E v \in FormDates \cup { << >> } : setDate(v)
    \/ \E t \in TimeChoices \cup { << >> } : setTime(t)
    \/ \E i \in 1..Len(services) : toggleServiceSelection(services[i].id)
    \/ \E i \in 1..Len(appointments) : handleEditAppointment(appointments[i])
    \/ resetAppointmentForm
    \/ CanStore /\ handleSubmitAppointment
    \/ \E i \in 1..Len(appointments) : handleDeleteAppointmentClick(appointments[i].id)
    \/ \E day \in CalendarCells :
          /\ day.dateStr \in FormDates
          /\ handleSelectDay(day)

Spec == Init /\ [][Next]_vars

(***************************************************************************)
(* SpecCal: the calendar and the time select, over the months around        *)
(* several "today" dates                                                    *)
(***************************************************************************)
\* << today, selected date >>: the selected date is today (the state after
\* construction) or a date that was typed into the date input and submitted
CalInputs ==
    { << DateString(y, 2, 10), DateString(y, 2, 10) >> : y \in { 1900, 2000, 2023, 2024, 2100 } }
    \cup
    { << DateString(2025, m, 15), DateString(2025, m, 15) >> : m \in { 1, 5, 8, 11, 12 } }
    \cup
    { << DateString(1996, 2, 10), padStart(DateString(96, 2, 29), 10) >> }

InitCal ==
    /\ services = FormCatalog
    /\ appointments = << >>
    /\ nextId = 0
    /\ \E in \in CalInputs : todayStr = in[1] /\ selectedDate = in[2]
    /\ viewMonth = substring(selectedDate, 7)
    /\ EmptyForm
    /\ StoreIdle

NextCal ==
    \/ \E day \in CalendarCells : handleSelectDay(day)
    \/ \E delta \in { -1, 1 } : goMonth(delta) /\ InWindow(viewMonth')
    \/ \E t \in TimeChoices \cup { << >> } : setTime(t)

SpecCal == InitCal /\ [][NextCal]_vars

(***************************************************************************)
(* SpecAgg: the aggregate and the price rule, over appointment lists as     *)
(* the store may hold them                                                  *)
(***************************************************************************)
AggDates == { DateString(2025, 6, 1), DateString(2025, 6, 15), DateString(2025, 7, 1) }

\* << totalPrice, serviceId >>; S(9) is a service that left the catalog
AggPrices == { << 0, S(1) >>, << 0, S(9) >>, << 50, S(1) >>, << 100, S(1) >>, << 999, S(1) >> }

AggAppointment(i, d, p) ==
    [ id |-> NewId(i), clientName |-> << "A" >>, date |-> d,
      time |-> timeOptions[i], serviceId |-> p[2], totalPrice |-> p[1],
      attended |-> FALSE ]

AggLists ==
    UNION { { [ i \in 1..n |-> AggAppointment(i, ds[i], ps[i]) ] :
                ds \in [ 1..n -> AggDates ], ps \in [ 1..n -> AggPrices ] } :
            n \in 0..MaxAggAppointments }

InitAgg ==
    /\ services = FormCatalog
    /\ appointments \in AggLists
    /\ nextId = Len(appointments)
    /\ todayStr = DateString(2025, 6, 15)
    /\ Mounted
    /\ EmptyForm
    /\ StoreIdle

NextAgg ==
    \/ \E day \in CalendarCells :
          /\ day.dateStr \in AggDates
          /\ handleSelectDay(day)

SpecAgg == InitAgg /\ [][NextAgg]_vars

(***************************************************************************)
(* SpecBundle: the service bundle of the form, over a catalog larger than   *)
(* the bundle may grow                                                      *)
(***************************************************************************)
BundleCatalog == [ i \in 1..NumBundleServices |-> [ id |-> S(i), price |-> 10 ] ]

InitBundle ==
    /\ services = BundleCatalog
    /\ appointments = << >>
    /\ nextId = 0
    /\ todayStr = Today
    /\ Mounted
    /\ EmptyForm
    /\ StoreIdle

CanStoreBundle == editingAppointmentId # NULL \/ nextId < MaxBundleIds

NextBundle ==
    \/ setClientName(<< "A" >>)
    \/ setTime(timeOptions[1])
    \/ \E i \in 1..Len(services) : toggleServiceSelection(services[i].id)
    \/ \E i \in 1..Len(appointments) : handleEditAppointment(appointments[i])
    \/ resetAppointmentForm
    \/ CanStoreBundle /\ handleSubmitAppointment

SpecBundle == InitBundle /\ [][NextBundle]_vars

(***************************************************************************)
(* SpecStore: the persistence calls, each request of which may fail         *)
(***************************************************************************)
StoreServiceData == { [ price |-> 10 ], [ price |-> 20 ] }

StoreServiceIds == { S(1), S(2) }

\* what the form submits: an appointment of one of two primary services
StoreData ==
    { [ clientName |-> << "A" >>, date |-> Today, time |-> timeOptions[1],
        serviceId |-> id, totalPrice |-> 10, attended |-> FALSE ] :
      id \in StoreServiceIds }

\* the serviceIds argument: the bundle of the form, or an empty list
StoreBundles == { << >>, << S(1) >>, << S(2), S(1) >> }

StoreAppointmentIds == { NewId(n) : n \in 1..MaxStoreAppointments }

InitStore ==
    /\ services = FormCatalog
    /\ appointments = << >>
    /\ nextId = 0
    /\ todayStr = Today
    /\ Mounted
    /\ EmptyForm
    /\ StoreIdle

\* the link table stays within MaxStoreLinks rows
RoomForLinks(serviceIds) ==
    Len(db.appointment_services) + (IF Len(serviceIds) > 0 THEN Len(serviceIds) ELSE 1)
        <= MaxStoreLinks

NextStore ==
    \/ \E ok \in BOOLEAN : fetchServices(ok)
    \/ \E data \in StoreServiceData, ok \in BOOLEAN :
          /\ db.createdServices < MaxStoreServices
          /\ insertService(data, ok)
    \/ \E id \in StoreServiceIds, data \in StoreServiceData, ok \in BOOLEAN :
          updateService(id, data, ok)
    \/ \E id \in StoreServiceIds, ok \in BOOLEAN : deleteService(id, ok)
    \/ \E ok \in BOOLEAN : fetchAppointments(ok)
    \/ \E data \in StoreData, serviceIds \in StoreBundles, okInsert, okLinks \in BOOLEAN :
          /\ db.createdAppointments < MaxStoreAppointments
          /\ RoomForLinks(serviceIds)
          /\ insertAppointment(data, serviceIds, okInsert, okLinks)
    \/ \E id \in StoreAppointmentIds, data \in StoreData, serviceIds \in StoreBundles,
           okUpdate, okDelete, okLinks \in BOOLEAN :
          /\ RoomForLinks(serviceIds)
          /\ updateAppointment(id, data, serviceIds, okUpdate, okDelete, okLinks)
    \/ \E id \in StoreAppointmentIds, okDelete, okLinks \in BOOLEAN :
          deleteAppointment(id, okDelete, okLinks)
    \/ \E id \in StoreAppointmentIds, attended \in BOOLEAN, ok \in BOOLEAN :
          toggleAttendance(id, attended, ok)

SpecStore == InitStore /\ [][NextStore]_vars

(***************************************************************************)
(* SpecCatalog: the catalog changes under a list of appointments            *)
(***************************************************************************)
CatalogLists ==
    UNION { { [ i \in 1..n |-> AggAppointment(i, ds[i], ps[i]) ] :
                ds \in [ 1..n -> AggDates ], ps \in [ 1..n -> AggPrices ] } :
            n \in 0..MaxCatalogAppointments }

InitCatalog ==
    /\ services = FormCatalog
    /\ appointments \in CatalogLists
    /\ nextId = Len(appointments)
    /\ todayStr = DateString(2025, 6, 15)
    /\ Mounted
    /\ EmptyForm
    /\ StoreIdle

\* what is typed into the name, price and duration inputs of the modal
ModalNames == { << >>, << "N" >> }
ModalPrices == { << >>, << "9", "5" >> }
ModalDurations == { << >>, << "3", "0" >> }

\* the service selected in the modal's list, or none
ModalSelections == { NULL } \cup { services[i].id : i \in 1..Len(services) }

NextCatalog ==
    \/ \E day \in CalendarCells :
          /\ day.dateStr \in AggDates
          /\ handleSelectDay(day)
    \/ \E n \in ModalNames, p \in ModalPrices, d \in ModalDurations,
           e \in BOOLEAN, sel \in ModalSelections :
          /\ (e /\ sel # NULL) \/ Len(services) < MaxCatalog
          /\ handleNewService(n, p, d, e, sel)
    \/ \E sel \in ModalSelections : handleClickDeleteService(sel)

SpecCatalog == InitCatalog /\ [][NextCatalog]_vars

(***************************************************************************)
(* Properties                                                               *)
(***************************************************************************)
Indices(list) == 1..Len(list)

Elements(list) == { list[i] : i \in 1..Len(list) }

\* C1: no submission is sent for a date and time that an appointment other
\* than the one being edited already holds, so no two appointments of the
\* list come to share a date and a time.
C1_NoDoubleBooking ==
    [][ lastCall'.kind \in { "add", "update" } =>
          \A a \in Elements(appointments) :
              a.id # editingAppointmentId =>
                  ~ ( /\ a.date = lastCall'.data.date
                      /\ a.time = lastCall'.data.time ) ]_vars

\* minutes after midnight of an "HH:MM" string
ToMinutes(t) == 60 * Number(SubSeq(t, 1, 2)) + Number(SubSeq(t, 4, 5))

WellFormedTimes(times) ==
    /\ \A i \in Indices(times) : Len(times[i]) = 5 /\ times[i][3] = ":"
    /\ \A i \in 1..(Len(times) - 1) : ToMinutes(times[i + 1]) = ToMinutes(times[i]) + 30

\* the values the time select offers
OptionValues == [ i \in 1..Len(selectOptions) |-> selectOptions[i].value ]

\* C2 as stated: generateTimeOptions() returns 26 entries, from "07:00" to
\* "19:00", rising in steps of 30 minutes.
C2_EndsAtNineteen ==
    LET times == OptionValues
    IN  /\ Len(times) = 26
        /\ times[1] = << "0", "7", ":", "0", "0" >>
        /\ times[Len(times)] = << "1", "9", ":", "0", "0" >>
        /\ WellFormedTimes(times)

\* C2 amended: generateTimeOptions() returns 26 entries, from "07:00" to
\* "19:30", rising in steps of 30 minutes.
C2_EndsAtNineteenThirty ==
    LET times == OptionValues
    IN  /\ Len(times) = 26
        /\ times[1] = << "0", "7", ":", "0", "0" >>
        /\ times[Len(times)] = << "1", "9", ":", "3", "0" >>
        /\ WellFormedTimes(times)

\* the user picked the last option of the select
C2_Witness ==
    /\ time = OptionValues[26]
    /\ ToMinutes(time) = 19 * 60 + 30

IsLeapYear(y) == y % 4 = 0 /\ (y % 100 # 0 \/ y % 400 = 0)

DaysOfMonth(y, m) ==
    IF m = 2 THEN (IF IsLeapYear(y) THEN 29 ELSE 28)
    ELSE IF m \in { 4, 6, 9, 11 } THEN 30 ELSE 31

CurrentIndices(cells) == { i \in Indices(cells) : cells[i].isCurrentMonth }

\* C3: the grid has 42 cells, and the current-month cells are one contiguous
\* run as long as the month, numbered 1..N in order.
C3_GridAndCurrentRun ==
    LET cells == calendarDays
        n     == DaysOfMonth(viewYearNumber, viewMonthNumber)
    IN  /\ Len(cells) = 42
        /\ \E start \in 0..41 :
              /\ CurrentIndices(cells) = (start + 1)..(start + n)
              /\ \A k \in 1..n : cells[start + k].dayNumber = k

\* a December grid with leading and trailing cells
\* the user moved on to it
C3_Witness ==
    LET cells == calendarDays
    IN  /\ viewMonthNumber = 12
        /\ viewMonth # substring(todayStr, 7)
        /\ ~ cells[1].isCurrentMonth
        /\ ~ cells[42].isCurrentMonth

\* C4: February has 29 current-month cells exactly in leap years and 28
\* otherwise; the other months have their 30 or 31.
C4_LeapYearCells ==
    LET count == Cardinality(CurrentIndices(calendarDays))
        y     == viewYearNumber
        m     == viewMonthNumber
    IN  /\ m = 2 =>
              /\ count = 29 <=> (y % 4 = 0 /\ (y % 100 # 0 \/ y % 400 = 0))
              /\ count \in { 28, 29 }
        /\ m \in { 4, 6, 9, 11 } => count = 30
        /\ m \in { 1, 3, 5, 7, 8, 10, 12 } => count = 31

\* February 2024 on view, its 29th day selected
C4_Witness ==
    /\ viewMonth = << "2", "0", "2", "4", "-", "0", "2" >>
    /\ Cardinality(CurrentIndices(calendarDays)) = 29
    /\ selectedDate = << "2", "0", "2", "4", "-", "0", "2", "-", "2", "9" >>
    /\ \E i \in CurrentIndices(calendarDays) : calendarDays[i].isSelected

ParseDate(s) ==
    LET parts == split(s)
    IN  [ year |-> Number(parts[1]), month |-> Number(parts[2]), day |-> Number(parts[3]) ]

Min(set) == CHOOSE x \in set : \A y \in set : x <= y
Max(set) == CHOOSE x \in set : \A y \in set : x >= y

\* C5: leading cells are dated in the month before (December of year-1 for
\* January), trailing cells in the month after (January of year+1 for
\* December), the trailing ones from day 1 on.
C5_AdjacentMonths ==
    LET cells == calendarDays
        y     == viewYearNumber
        m     == viewMonthNumber
        cur   == CurrentIndices(cells)
    IN  /\ cur # {}
        /\ \A i \in Indices(cells) :
              LET d == ParseDate(cells[i].dateStr)
              IN  /\ i < Min(cur) =>
                        /\ d.year = (IF m = 1 THEN y - 1 ELSE y)
                        /\ d.month = (IF m = 1 THEN 12 ELSE m - 1)
                  /\ i > Max(cur) =>
                        /\ d.year = (IF m = 12 THEN y + 1 ELSE y)
                        /\ d.month = (IF m = 12 THEN 1 ELSE m + 1)
                        /\ d.day = i - Max(cur)
                        /\ cells[i].dayNumber = i - Max(cur)

\* January 2025 on view: its grid opens with 29 December 2024, which the
\* user selected
C5_Witness ==
    /\ viewMonth = << "2", "0", "2", "5", "-", "0", "1" >>
    /\ calendarDays[1].dateStr = << "2", "0", "2", "4", "-", "1", "2", "-", "2", "9" >>
    /\ ~ calendarDays[1].isCurrentMonth
    /\ calendarDays[1].isSelected

\* C6: the booked times of the form date are the times of the appointments
\* of that date other than the one being edited; the edited appointment's
\* own time is free for it, and booked again once no appointment is edited.
C6_BookedSlots ==
    LET booked == Elements(bookedTimesForFormDate)
    IN  /\ booked = { a.time : a \in { b \in Elements(appointments) :
                                          b.date = date /\ b.id # editingAppointmentId } }
        /\ \A x \in Elements(appointments) :
              /\ ( /\ x.id = editingAppointmentId
                   /\ x.date = date
                   /\ \A o \in Elements(appointments) :
                         o.id # x.id => ~ (o.date = x.date /\ o.time = x.time) )
                 => x.time \notin booked
              /\ (editingAppointmentId = NULL /\ x.date = date) => x.time \in booked

\* an appointment is edited on its own date, next to another one of that date
C6_Witness ==
    \E x, o \in Elements(appointments) :
        /\ x.id = editingAppointmentId
        /\ o.id # x.id
        /\ x.date = date /\ o.date = date
        /\ x.time \notin Elements(bookedTimesForFormDate)
        /\ o.time \in Elements(bookedTimesForFormDate)

\* the rule of the price: the stored total when it is positive, else the
\* price of the catalog service of that id, else 0
EffectivePrice(a) ==
    IF a.totalPrice > 0 THEN a.totalPrice
    ELSE IF \E s \in Elements(services) : s.id = a.serviceId
    THEN (CHOOSE s \in Elements(services) : s.id = a.serviceId).price
    ELSE 0

\* C7: the aggregate, the day list and the message text all price an
\* appointment by the rule.
C7_EffectivePrice ==
    \A a \in Elements(appointments) :
        /\ AggregatePrice(a) = EffectivePrice(a)
        /\ DayListValue(a) = EffectivePrice(a)
        /\ MessagePrice(a) = EffectivePrice(a)

\* the day list of a selected day shows a snapshot total, a fallback to the
\* catalog and a fallback to 0
C7_Witness ==
    /\ selectedDate # todayStr
    /\ \E a \in Elements(appointmentsOfDay) : a.totalPrice = 100 /\ AggregatePrice(a) = 100
    /\ \E a \in Elements(appointmentsOfDay) : a.totalPrice = 0 /\ MessagePrice(a) = 80
    /\ \E a \in Elements(appointmentsOfDay) : a.totalPrice = 0 /\ DayListValue(a) = 0

RECURSIVE SumPrices(_)
SumPrices(indices) ==
    IF indices = {} THEN 0
    ELSE LET i == CHOOSE x \in indices : TRUE
         IN  EffectivePrice(appointments[i]) + SumPrices(indices \ { i })

OnDay == { i \in Indices(appointments) : appointments[i].date = selectedDate }

InMonth ==
    { i \in Indices(appointments) :
        SubSeq(appointments[i].date, 1, 7) = SubSeq(selectedDate, 1, 7) }

\* C8: countDay counts the appointments of the selected date, totalDay sums
\* their effective prices, totalMonth sums those of the selected month.
C8_Aggregate ==
    LET agg == aggregate
    IN  /\ agg.countDay = Cardinality(OnDay)
        /\ agg.totalDay = SumPrices(OnDay)
        /\ agg.totalMonth = SumPrices(InMonth)

\* the example: 2025-06-01/100, 2025-06-15/50, 2025-07-01/999, 2025-06-01 selected
C8_Witness ==
    /\ Len(appointments) = 3
    /\ appointments[1].date = DateString(2025, 6, 1) /\ appointments[1].totalPrice = 100
    /\ appointments[2].date = DateString(2025, 6, 15) /\ appointments[2].totalPrice = 50
    /\ appointments[3].date = DateString(2025, 7, 1) /\ appointments[3].totalPrice = 999
    /\ selectedDate = DateString(2025, 6, 1)
    /\ aggregate = [ countDay |-> 1, totalDay |-> 100, totalMonth |-> 150 ]

\* C9: the day total never exceeds the month total.
C9_DayWithinMonth == aggregate.totalDay <= aggregate.totalMonth

\* a selected day with revenue inside a month with more
C9_Witness ==
    /\ selectedDate # todayStr
    /\ aggregate.totalDay > 0
    /\ aggregate.totalDay < aggregate.totalMonth

\* C10: a call of onAddAppointment or onUpdateAppointment carries a bundle of
\* 1 to 5 service ids, the first of which is the appointment's serviceId.
C10_BundleOfCall ==
    lastCall.kind \in { "add", "update" } =>
        /\ Len(lastCall.serviceIds) >= 1
        /\ Len(lastCall.serviceIds) <= 5
        /\ lastCall.data.serviceId = lastCall.serviceIds[1]

\* an update sent with a full bundle
C10_Witness ==
    /\ lastCall.kind = "update"
    /\ Len(lastCall.serviceIds) = 5

\* the sequence without the element x, the others in their order
Without(list, x) == SelectSeq(list, LAMBDA y : y # x)

\* C11: a toggle removes a member and appends a non-member; at 5 members a
\* non-member changes neither the bundle nor the primary service; removing
\* the primary service promotes the next remaining member, or leaves the
\* primary unset when the bundle becomes empty.
C11_ToggleSemantics ==
    [][ \A i \in Indices(services) :
          LET id   == services[i].id
              prev == selectedServiceIds
          IN  toggleServiceSelection(id) =>
                /\ includes(prev, id) =>
                      /\ ~ includes(selectedServiceIds', id)
                      /\ Len(selectedServiceIds') = Len(prev) - 1
                      /\ selectedServiceIds' = Without(prev, id)
                      /\ serviceId = id =>
                            serviceId' = IF Len(prev) > 1 THEN Without(prev, id)[1]
                                         ELSE << >>
                /\ (~ includes(prev, id) /\ Len(prev) < 5) =>
                      selectedServiceIds' = prev \o << id >>
                /\ (~ includes(prev, id) /\ Len(prev) >= 5) =>
                      /\ selectedServiceIds' = prev
                      /\ serviceId' = serviceId ]_vars

\* an edit opened on an appointment of service s1, whose bundle was then
\* filled up to five without s1: s1 was removed and another member promoted
C11_Witness ==
    /\ editingAppointmentId # NULL
    /\ \E a \in Elements(appointments) :
          /\ a.id = editingAppointmentId
          /\ a.serviceId = S(1)
    /\ Len(selectedServiceIds) = 5
    /\ ~ includes(selectedServiceIds, S(1))
    /\ serviceId = selectedServiceIds[1]

\* what line 216 rejects
Incomplete ==
    \/ trim(clientName) = << >>
    \/ (Len(selectedServiceIds) = 0 /\ serviceId = << >>)
    \/ date = << >>
    \/ time = << >>

\* C12: a submission with a blank client name, no chosen service, an empty
\* date or an empty time calls neither onAddAppointment nor
\* onUpdateAppointment and leaves the form, the editing id, selectedDate and
\* viewMonth as they were.
C12_RejectedSubmission ==
    [][ (Incomplete /\ handleSubmitAppointment) =>
          /\ lastCall'.kind \notin { "add", "update" }
          /\ appointments' = appointments
          /\ UNCHANGED << clientName, date, time, serviceId, selectedServiceIds,
                          editingAppointmentId, selectedDate, viewMonth >> ]_vars

\* a submission returned early on a form that lacks only a client name: the
\* name typed is blank
C12_Witness ==
    /\ lastCall = Rejected
    /\ clientName = << " " >>
    /\ selectedServiceIds # << >>
    /\ date # << >>
    /\ time # << >>

\* C13: a persistence call one of whose requests came back with an error
\* fails to its caller.
C13_FailuresPropagate == outcome.failed # { } => outcome.threw

\* what an appointment alone adds to countDay, totalDay and totalMonth
Contribution(a) ==
    AggregateLoop(<< a >>, selectedDate,
                  [ totalDay |-> 0, totalMonth |-> 0, countDay |-> 0 ])

\* C14: a change of the catalog leaves the effective price of an appointment
\* with a stored total above zero, and what it adds to totalDay and
\* totalMonth, as they were.
C14_SnapshotSurvivesCatalog ==
    [][ services' # services =>
          \A a \in Elements(appointments) :
              a.totalPrice > 0 =>
                  /\ AggregatePrice(a)' = AggregatePrice(a)
                  /\ DayListValue(a)' = DayListValue(a)
                  /\ MessagePrice(a)' = MessagePrice(a)
                  /\ AggregatePrice(a)' = a.totalPrice
                  /\ Contribution(a)' = Contribution(a) ]_vars

\* service s1 has left the catalog, and the day's revenue still holds the
\* 100 an s1 appointment of the selected day stored
C14_Witness ==
    /\ ~ \E i \in Indices(services) : services[i].id = S(1)
    /\ \E a \in Elements(appointments) :
          /\ a.serviceId = S(1)
          /\ a.totalPrice = 100
          /\ a.date = selectedDate
    /\ aggregate.totalDay >= 100

\* the weekday of a calendar date, 0 = Sunday .. 6 = Saturday, by a table of
\* month offsets
MonthOffset == << 0, 3, 2, 5, 0, 3, 5, 1, 4, 6, 2, 4 >>

Weekday(y, m, d) ==
    LET yy == IF m < 3 THEN y - 1 ELSE y
    IN  (yy + (yy \div 4) - (yy \div 100) + (yy \div 400) + MonthOffset[m] + d) % 7

\* C15: there are as many leading cells as the weekday index of day 1 of the
\* month on view; their day numbers ascend to the last day of the month
\* before; the cell that follows them is day 1 of the month on view.
C15_LeadingCells ==
    LET cells == calendarDays
        y     == viewYearNumber
        m     == viewMonthNumber
        lead  == Min(CurrentIndices(cells)) - 1
        py    == IF m = 1 THEN y - 1 ELSE y
        pm    == IF m = 1 THEN 12 ELSE m - 1
    IN  /\ lead = Weekday(y, m, 1)
        /\ \A i \in 1..lead : cells[i].dayNumber = DaysOfMonth(py, pm) - (lead - i)
        /\ cells[lead + 1].isCurrentMonth
        /\ cells[lead + 1].dayNumber = 1

\* C16: a cell is flagged today exactly when its date string is todayStr and
\* selected exactly when its date string is the selected date, whatever the
\* month it belongs to; at most one cell carries each flag.
C16_Flags ==
    LET cells == calendarDays
    IN  /\ \A i \in Indices(cells) :
              /\ cells[i].isToday <=> cells[i].dateStr = todayStr
              /\ cells[i].isSelected <=> cells[i].dateStr = selectedDate
        /\ Cardinality({ i \in Indices(cells) : cells[i].isToday }) <= 1
        /\ Cardinality({ i \in Indices(cells) : cells[i].isSelected }) <= 1

\* the user selected a cell outside the month on view; today's cell is in
\* the same grid
C16_Witness ==
    LET cells == calendarDays
    IN  /\ selectedDate # todayStr
        /\ \E i \in Indices(cells) :
              cells[i].isSelected /\ ~ cells[i].isCurrentMonth /\ ~ cells[i].isToday
        /\ \E j \in Indices(cells) :
              cells[j].isToday /\ cells[j].isCurrentMonth /\ ~ cells[j].isSelected

\* the calendar date after a calendar date
NextDate(d) ==
    IF d.day < DaysOfMonth(d.year, d.month)
    THEN [ year |-> d.year, month |-> d.month, day |-> d.day + 1 ]
    ELSE IF d.month < 12
    THEN [ year |-> d.year, month |-> d.month + 1, day |-> 1 ]
    ELSE [ year |-> d.year + 1, month |-> 1, day |-> 1 ]

\* C17: the 42 cells are 42 consecutive calendar days with pairwise distinct
\* date strings, the first of them a Sunday.
C17_ConsecutiveDays ==
    LET cells == calendarDays
        first == ParseDate(cells[1].dateStr)
    IN  /\ Len(cells) = 42
        /\ \A i, j \in Indices(cells) : i # j => cells[i].dateStr # cells[j].dateStr
        /\ \A i \in 1..(Len(cells) - 1) :
              ParseDate(cells[i + 1].dateStr) = NextDate(ParseDate(cells[i].dateStr))
        /\ Weekday(first.year, first.month, first.day) = 0

\* C18: the primary service of the form is the first member of the bundle,
\* and is empty when the bundle is empty.
C18_PrimaryIsFirst ==
    IF Len(selectedServiceIds) > 0
    THEN serviceId = selectedServiceIds[1]
    ELSE serviceId = << >>

\* an appointment was opened for edit and its stored service taken out of
\* the bundle, which now holds two others
C18_Witness ==
    /\ editingAppointmentId # NULL
    /\ \E a \in Elements(appointments) :
          /\ a.id = editingAppointmentId
          /\ ~ includes(selectedServiceIds, a.serviceId)
    /\ Len(selectedServiceIds) = 2
    /\ serviceId = selectedServiceIds[1]

\* C19: onUpdateAppointment is only invoked with the id of an appointment
\* that is in the list.
C19_UpdateOfListedId ==
    lastCall.kind = "update" =>
        \E a \in Elements(appointments) : a.id = lastCall.id

\* C20: an appointment opened for edit and submitted with the selection the
\* edit left is updated with its stored totalPrice and its stored attended
\* flag.
C20_EditKeepsSnapshot ==
    [][ \A a \in Elements(appointments) :
          ( /\ a.id = editingAppointmentId
            /\ selectedServiceIds = << a.serviceId >>
            /\ lastCall'.kind = "update" ) =>
              /\ lastCall'.data.totalPrice = a.totalPrice
              /\ lastCall'.data.attended = a.attended ]_vars

\* the service ids linked to an appointment, in the order of the link table
LinkIds(tables, id) ==
    LET links == SelectSeq(tables.appointment_services,
                           LAMBDA link : link.appointment_id = id)
    IN  [ i \in 1..Len(links) |-> links[i].service_id ]

\* the service ids a call is to link: its list, or the single serviceId of
\* the data when the list is empty
ServiceIdsOfCall(data, serviceIds) ==
    IF Len(serviceIds) > 0 THEN serviceIds ELSE << data.serviceId >>

\* every stored appointment has 1 to 5 links, and every link belongs to a
\* stored appointment
LinksWellFormed(tables) ==
    /\ \A i \in Indices(tables.appointments) :
          /\ Len(LinkIds(tables, tables.appointments[i].id)) >= 1
          /\ Len(LinkIds(tables, tables.appointments[i].id)) <= 5
    /\ \A j \in Indices(tables.appointment_services) :
          Matches(tables.appointments, tables.appointment_services[j].appointment_id)

\* the step is an insertAppointment or an updateAppointment that returned to
\* its caller and wrote the appointment of that id
WritesAppointment(id) ==
    \/ \E data \in StoreData, serviceIds \in StoreBundles, okInsert, okLinks \in BOOLEAN :
          /\ id = NewId(db.createdAppointments + 1)
          /\ insertAppointment(data, serviceIds, okInsert, okLinks)
          /\ ~ outcome'.threw
    \/ \E data \in StoreData, serviceIds \in StoreBundles,
           okUpdate, okDelete, okLinks \in BOOLEAN :
          /\ updateAppointment(id, data, serviceIds, okUpdate, okDelete, okLinks)
          /\ ~ outcome'.threw

\* C21: whichever requests fail, every stored appointment has 1 to 5 links,
\* no link belongs to a deleted appointment, an insert or update that
\* returned leaves exactly the service ids it was given, and no other call
\* changes the links of a stored appointment.
C21_LinksOfAppointments ==
    [][ /\ LinksWellFormed(db')
        /\ \A data \in StoreData, serviceIds \in StoreBundles, okInsert, okLinks \in BOOLEAN :
              ( /\ insertAppointment(data, serviceIds, okInsert, okLinks)
                /\ ~ outcome'.threw ) =>
                  LinkIds(db', NewId(db.createdAppointments + 1))
                      = ServiceIdsOfCall(data, serviceIds)
        /\ \A id \in StoreAppointmentIds, data \in StoreData, serviceIds \in StoreBundles,
               okUpdate, okDelete, okLinks \in BOOLEAN :
              ( /\ updateAppointment(id, data, serviceIds, okUpdate, okDelete, okLinks)
                /\ ~ outcome'.threw ) =>
                  LinkIds(db', id) = ServiceIdsOfCall(data, serviceIds)
        /\ \A id \in StoreAppointmentIds :
              ( /\ Matches(db.appointments, id)
                /\ Matches(db'.appointments, id)
                /\ ~ WritesAppointment(id) ) =>
                  LinkIds(db', id) = LinkIds(db, id) ]_vars

====
